---- MODULE Spec2Model ----
(***************************************************************************)
(* A model of the document classification and quality-scored extraction    *)
(* engine of tax-return-tools: the content classifier, the multi-form page *)
(* splitter and the priority sorter of document_review.py, and the field   *)
(* extractor and quality aggregator of parse_source_docs.py.               *)
(*                                                                         *)
(* Each component is a pure function of its input, so each has its own     *)
(* specification: Init draws the input from a bounded set and the action   *)
(* applies the function.  The variable `unit` names the component a        *)
(* behaviour exercises; the other components' variables stay idle.         *)
(***************************************************************************)
EXTENDS Integers, Sequences, FiniteSets, TLC

VARIABLES
    unit,                  \* the component this behaviour exercises
    text, cls,             \* classify_by_content: its argument, its result
    PDFPLUMBER_AVAILABLE,  \* document_review.py's module flag
    pdf, page_groups,      \* classify_pdf_pages: its argument, its result
    pdf_files, file_origins, categorized,  \* sort_pdfs_by_category
    er, calls, emitted,    \* an ExtractionResult, the calls made on it, its to_dict
    w2,                    \* parse_w2's boxes: as extracted, then after each repair
    args, got,             \* extract_amount_with_quality: its arguments and its result
    data_list, gated       \* parsed entries, and what the two quality gates make of them

vars == <<unit, text, cls, PDFPLUMBER_AVAILABLE, pdf, page_groups,
          pdf_files, file_origins, categorized, er, calls, emitted, w2,
          args, got, data_list, gated>>

(***************************************************************************)
(* Bounds of the model.                                                    *)
(***************************************************************************)
MaxPhrases == 2     \* marker phrases in one classified text
MaxMatches == 2     \* dividend/interest patterns that match in one text
MaxPages == 4       \* pages of the PDF handed to the splitter
MaxFiles == 2       \* files handed to the sorter
MaxRepairs == 2     \* times the W-2 repair is applied to one set of boxes
MaxPatterns == 3    \* patterns in the list given to the field extractor
MaxItems == 2       \* entries in the list handed to the quality gates
MaxAttempts == 7    \* patterns tried before the one whose match is scored, plus one
MaxCalls == 4       \* calls on one ExtractionResult before to_dict

(***************************************************************************)
(* Generic helpers.                                                        *)
(***************************************************************************)
RECURSIVE KSubsets(_, _)
\* The subsets of S with at most k elements.
KSubsets(S, k) ==
    IF k = 0 THEN {{}}
    ELSE LET r == KSubsets(S, k - 1)
         IN  r \cup {x \cup {a} : x \in r, a \in S}

Min(a, b) == IF a < b THEN a ELSE b
Max(a, b) == IF a > b THEN a ELSE b

RECURSIVE SumSeq(_)
SumSeq(s) == IF s = <<>> THEN 0 ELSE Head(s) + SumSeq(Tail(s))

(***************************************************************************)
(* TEXT.  A text is abstracted to what the classifier reads of it: the     *)
(* marker phrases it contains, the case it is printed in, the name the     *)
(* payer/employer pattern cascade finds in it, and what each pattern of    *)
(* the dividend and interest cascades captures in it.  A capture is <<>>   *)
(* (the pattern does not match) or <<cents>>.                              *)
(***************************************************************************)
None == "None"

\* Every phrase classify_by_content looks for, upper-cased, and the compact
\* W-2 layout (an EIN line followed by two dollar amounts).
CompactW2Layout == "12-3456789 / 50000.00 7000.00"

Vocabulary ==
    {"5498", "1099-SA", "1095-C", "1095-B", "1099-MISC", "1099-NEC", "1099-G",
     "SOCIAL SECURITY WAGES",
     "WAGE AND TAX STATEMENT", "FORM W-2", "WAGES, TIPS", "W-2 WAGE",
     "1099-DIV", "DIVIDENDS AND DISTRIBUTIONS", "1099-INT", "INTEREST INCOME",
     "1099-R", "DISTRIBUTIONS FROM PENSIONS",
     "SSA-1099", "SOCIAL SECURITY BENEFIT",
     "1099-B", "PROCEEDS FROM BROKER",
     "1098-T", "TUITION STATEMENT", "1098", "MORTGAGE",
     "1099-Q", "QUALIFIED EDUCATION", "NONEMPLOYEE COMPENSATION",
     "GOVERNMENT PAYMENTS", "UNEMPLOYMENT COMPENSATION",
     "K-1", "SCHEDULE K-1", "1095", "HEALTH COVERAGE",
     "PROPERTY TAX", "AD VALOREM", "TAX COLLECTOR",
     CompactW2Layout}

\* The markers a phrase contains as substrings: itself, and for four phrases
\* a shorter marker as well.
MarkersOf(p) ==
    {p} \cup (CASE p \in {"1095-C", "1095-B"} -> {"1095"}
                [] p = "1098-T"               -> {"1098"}
                [] p = "SCHEDULE K-1"         -> {"K-1"}
                [] OTHER                      -> {})

\* str.upper() of a text.
Upper(t) == [t EXCEPT !.cased = "UPPER"]

\* `marker in s` for an upper-case marker: a case-sensitive substring test.
Contains(s, marker) ==
    /\ s.cased = "UPPER"
    /\ \E p \in s.phrases : marker \in MarkersOf(p)

\* re.search of the compact W-2 layout (digits only: case plays no part).
CompactW2(t) == CompactW2Layout \in t.phrases

NDivPatterns == 4
NIntPatterns == 3
Amounts == {0, 50000, 70000}    \* cents

\* The first pattern of a cascade that matches gives the amount; a capture
\* [\d,]+\.\d{2} always parses as a float, so the `except` branch is dead.
RECURSIVE FirstAmount(_)
FirstAmount(caps) ==
    IF caps = <<>> THEN 0
    ELSE IF Head(caps) # <<>> THEN Head(caps)[1]
    ELSE FirstAmount(Tail(caps))

\* Result that gives an unrecognised text the priority of 'Other'.
ResultOther9(form_type, payer, priority) ==
    [form_type |-> form_type, payer |-> payer,
     priority |-> IF form_type = None THEN 9 ELSE priority]

Result(form_type, payer, priority) ==
    [form_type |-> form_type, payer |-> payer, priority |-> priority]

\* The employer-name cascade of the W-2 branch and extract_payer_from_text:
\* both return the name their patterns find, or ''.
EmployerName(t) == t.name
extract_payer_from_text(t) == t.name

\* is_w2 that tests the other forms' markers before the exclusive marker.
is_w2_override_first(t) ==
    LET text_upper == Upper(t)
        NON_W2_FORM_MARKERS == {"5498", "1099-SA", "1095-C", "1095-B",
                                "1099-MISC", "1099-NEC", "1099-G"}
        has_non_w2_marker == \E m \in NON_W2_FORM_MARKERS : Contains(text_upper, m)
        has_ss_wages == Contains(text_upper, "SOCIAL SECURITY WAGES")
    IN  IF has_non_w2_marker THEN FALSE
        ELSE IF has_ss_wages THEN TRUE
        ELSE \/ Contains(text_upper, "WAGE AND TAX STATEMENT")
             \/ Contains(text_upper, "FORM W-2")
             \/ Contains(text_upper, "WAGES, TIPS")
             \/ Contains(text_upper, "W-2 WAGE")
             \/ CompactW2(t)

is_w2(t) ==
    LET text_upper == Upper(t)
        NON_W2_FORM_MARKERS == {"5498", "1099-SA", "1095-C", "1095-B",
                                "1099-MISC", "1099-NEC", "1099-G"}
        has_non_w2_marker == \E m \in NON_W2_FORM_MARKERS : Contains(text_upper, m)
        has_ss_wages == Contains(text_upper, "SOCIAL SECURITY WAGES")
    IN  IF has_ss_wages THEN TRUE
        ELSE IF has_non_w2_marker THEN FALSE
        ELSE \/ Contains(text_upper, "WAGE AND TAX STATEMENT")
             \/ Contains(text_upper, "FORM W-2")
             \/ Contains(text_upper, "WAGES, TIPS")
             \/ Contains(text_upper, "W-2 WAGE")
             \/ CompactW2(t)

has_div(t) ==
    \/ Contains(Upper(t), "1099-DIV")
    \/ Contains(Upper(t), "DIVIDENDS AND DISTRIBUTIONS")

has_int(t) ==
    \/ Contains(Upper(t), "1099-INT")
    \/ Contains(Upper(t), "INTEREST INCOME")

\* The consolidated-1099 branch: which section has the larger total.
\* Consolidated that asks for a nonzero interest total first.
ConsolidatedInterestFirst(t) ==
    LET div_amt == FirstAmount(t.div)
        int_amt == FirstAmount(t.int)
        payer == extract_payer_from_text(t)
    IN  IF int_amt > 0 THEN Result("1099-INT", payer, 2)
        ELSE IF div_amt > 0 THEN Result("1099-DIV", payer, 3)
        ELSE IF has_div(t) THEN Result("1099-DIV", payer, 3)
        ELSE Result("1099-INT", payer, 2)

Consolidated(t) ==
    LET div_amt == FirstAmount(t.div)
        int_amt == FirstAmount(t.int)
        payer == extract_payer_from_text(t)
    IN  IF div_amt > int_amt /\ div_amt > 0 THEN Result("1099-DIV", payer, 3)
        ELSE IF int_amt > 0 THEN Result("1099-INT", payer, 2)
        ELSE IF has_div(t) THEN Result("1099-DIV", payer, 3)
        ELSE Result("1099-INT", payer, 2)

\* The keyword rules after the dividend/interest rules, in the code's order.
RemainingForms(t) ==
    LET u == Upper(t)
        payer == extract_payer_from_text(t)
    IN  IF Contains(u, "1099-R") \/ Contains(u, "DISTRIBUTIONS FROM PENSIONS")
            THEN Result("1099-R", payer, 4)
        ELSE IF Contains(u, "SSA-1099") \/ Contains(u, "SOCIAL SECURITY BENEFIT")
            THEN Result("SSA-1099", "Social Security Admin", 5)
        ELSE IF Contains(u, "1099-B") \/ Contains(u, "PROCEEDS FROM BROKER")
            THEN Result("1099-B", payer, 6)
        ELSE IF Contains(u, "1098-T") \/ Contains(u, "TUITION STATEMENT")
            THEN Result("1098-T", payer, 7)
        ELSE IF Contains(u, "1098") /\ Contains(u, "MORTGAGE")
            THEN Result("1098", payer, 7)
        ELSE IF Contains(u, "1099-Q") \/ Contains(u, "QUALIFIED EDUCATION")
            THEN Result("1099-Q", payer, 8)
        ELSE IF Contains(u, "1099-NEC") \/ Contains(u, "NONEMPLOYEE COMPENSATION")
            THEN Result("1099-NEC", payer, 8)
        ELSE IF Contains(u, "1099-MISC")
            THEN Result("1099-MISC", payer, 8)
        ELSE IF \/ Contains(u, "1099-G")
                \/ Contains(u, "GOVERNMENT PAYMENTS")
                \/ Contains(u, "UNEMPLOYMENT COMPENSATION")
            THEN Result("1099-G", payer, 8)
        ELSE IF Contains(u, "K-1") \/ Contains(u, "SCHEDULE K-1")
            THEN Result("K-1", payer, 8)
        ELSE IF Contains(u, "1095") \/ Contains(u, "HEALTH COVERAGE")
            THEN Result("1095", "", 9)
        ELSE IF \/ Contains(u, "PROPERTY TAX")
                \/ Contains(u, "AD VALOREM")
                \/ Contains(u, "TAX COLLECTOR")
            THEN Result("Property Tax", "", 9)
        ELSE Result(None, "", 99)

\* classify_by_content that tries the keyword rules before the
\* dividend/interest rules.
classify_by_content_forms_first(t) ==
    IF is_w2(t) THEN Result("W-2", EmployerName(t), 1)
    ELSE IF RemainingForms(t).form_type # None THEN RemainingForms(t)
    ELSE IF has_div(t) /\ has_int(t) THEN Consolidated(t)
    ELSE IF has_int(t) THEN Result("1099-INT", extract_payer_from_text(t), 2)
    ELSE IF has_div(t) THEN Result("1099-DIV", extract_payer_from_text(t), 3)
    ELSE Result(None, "", 99)

classify_by_content(t) ==
    IF is_w2(t) THEN Result("W-2", EmployerName(t), 1)
    ELSE IF has_div(t) /\ has_int(t) THEN Consolidated(t)
    ELSE IF has_int(t) THEN Result("1099-INT", extract_payer_from_text(t), 2)
    ELSE IF has_div(t) THEN Result("1099-DIV", extract_payer_from_text(t), 3)
    ELSE RemainingForms(t)


(***************************************************************************)
(* The texts the classifier is run on: at most MaxPhrases phrases, in      *)
(* either case, with or without a name the payer patterns find.  The       *)
(* dividend and interest cascades are searched only when both sections'    *)
(* markers are present (lines 511-551), so only such texts carry captures, *)
(* at most MaxMatches of them.                                             *)
(***************************************************************************)
Names == {"", "ACME BANK"}
Cases == {"UPPER", "Mixed"}
DivMarkers == {"1099-DIV", "DIVIDENDS AND DISTRIBUTIONS"}
IntMarkers == {"1099-INT", "INTEREST INCOME"}

CaptureMaps ==
    UNION {[S -> Amounts] : S \in KSubsets(1..(NDivPatterns + NIntPatterns), MaxMatches)}

CapOf(f, i) == IF i \in DOMAIN f THEN <<f[i]>> ELSE <<>>

MkText(ps, c, n, f) ==
    [phrases |-> ps, cased |-> c, name |-> n,
     div |-> [i \in 1..NDivPatterns |-> CapOf(f, i)],
     int |-> [i \in 1..NIntPatterns |-> CapOf(f, i + NDivPatterns)]]

CapturesFor(ps) ==
    IF ps \cap DivMarkers # {} /\ ps \cap IntMarkers # {} THEN CaptureMaps ELSE {<<>>}

Texts ==
    UNION {{MkText(ps, c, n, f) : c \in Cases, n \in Names, f \in CapturesFor(ps)} :
           ps \in KSubsets(Vocabulary, MaxPhrases)}

NoText == MkText({}, "UPPER", "", <<>>)

(***************************************************************************)
(* MULTI-FORM PAGE SPLITTER: classify_pdf_pages.  A PDF is its file name,  *)
(* its pages (each the length of its stripped text and the text) and       *)
(* whether pdfplumber reads it without raising.                            *)
(***************************************************************************)
SparseLimit == 50

Page(chars, t) == [chars |-> chars, text |-> t]

\* PageClass without the test of the text's length.
PageClassAnyLength(i, page) ==
    LET r == classify_by_content(page.text)
    IN  [idx |-> i - 1, form_type |-> r.form_type, payer |-> r.payer,
         priority |-> r.priority]

\* One row of page_classes; idx is the 0-based page number.
PageClass(i, page) ==
    IF page.chars < SparseLimit
    THEN [idx |-> i - 1, form_type |-> None, payer |-> "", priority |-> 99]
    ELSE LET r == classify_by_content(page.text)
         IN  [idx |-> i - 1, form_type |-> r.form_type, payer |-> r.payer,
              priority |-> r.priority]

PageClasses(d) == [i \in 1..Len(d.pages) |-> PageClass(i, d.pages[i])]

\* The tuple appended to groups: (pages, current_type or 'Other', payer, priority).
GroupOf(cur) ==
    [pages |-> cur.pages,
     category |-> IF cur.type = None THEN "Other" ELSE cur.type,
     payer |-> cur.payer, priority |-> cur.priority]

RECURSIVE SweepClosingAtUnclassified(_, _, _, _)
\* Sweep in which an unclassified page closes the open group and opens one
\* of its own.
SweepClosingAtUnclassified(pc, i, groups, cur) ==
    IF i > Len(pc) THEN Append(groups, GroupOf(cur))
    ELSE LET p == pc[i]
         IN  IF p.form_type = cur.type /\ p.form_type # None
             THEN SweepClosingAtUnclassified(pc, i + 1, groups,
                        [cur EXCEPT !.pages = Append(@, p.idx),
                                    !.payer = IF p.payer # "" /\ @ = "" THEN p.payer ELSE @])
             ELSE SweepClosingAtUnclassified(pc, i + 1, Append(groups, GroupOf(cur)),
                        [pages |-> <<p.idx>>, type |-> p.form_type,
                         payer |-> p.payer, priority |-> p.priority])

RECURSIVE Sweep(_, _, _, _)
\* The loop over page_classes[1:], then "save last group".
Sweep(pc, i, groups, cur) ==
    IF i > Len(pc) THEN Append(groups, GroupOf(cur))
    ELSE LET p == pc[i]
         IN  IF p.form_type = None
             THEN Sweep(pc, i + 1, groups, [cur EXCEPT !.pages = Append(@, p.idx)])
             ELSE IF p.form_type = cur.type
             THEN Sweep(pc, i + 1, groups,
                        [cur EXCEPT !.pages = Append(@, p.idx),
                                    !.payer = IF p.payer # "" /\ @ = "" THEN p.payer ELSE @])
             ELSE Sweep(pc, i + 1, Append(groups, GroupOf(cur)),
                        [pages |-> <<p.idx>>, type |-> p.form_type,
                         payer |-> p.payer, priority |-> p.priority])

NoGroups == [none |-> TRUE, groups |-> <<>>]      \* the return value None

TypesFound(pc) == {pc[i].form_type : i \in DOMAIN pc} \ {None}

\* GroupPages with the first page left out of the first group.
GroupPagesFromSecond(pc) ==
    Sweep(pc, 2, <<>>,
          [pages |-> <<>>, type |-> pc[1].form_type,
           payer |-> pc[1].payer, priority |-> pc[1].priority])

GroupPages(pc) ==
    Sweep(pc, 2, <<>>,
          [pages |-> <<pc[1].idx>>, type |-> pc[1].form_type,
           payer |-> pc[1].payer, priority |-> pc[1].priority])

\* classify_pdf_pages that also splits a two-page PDF.
classify_pdf_pages_from_two(d) ==
    IF ~PDFPLUMBER_AVAILABLE THEN NoGroups
    ELSE IF ~d.readable THEN NoGroups
    ELSE IF Len(d.pages) < 2 THEN NoGroups
    ELSE LET pc == PageClasses(d)
         IN  IF Cardinality(TypesFound(pc)) <= 1 THEN NoGroups
             ELSE [none |-> FALSE, groups |-> GroupPages(pc)]

classify_pdf_pages(d) ==
    IF ~PDFPLUMBER_AVAILABLE THEN NoGroups
    ELSE IF ~d.readable THEN NoGroups
    ELSE IF Len(d.pages) <= 2 THEN NoGroups
    ELSE LET pc == PageClasses(d)
         IN  IF Cardinality(TypesFound(pc)) <= 1 THEN NoGroups
             ELSE [none |-> FALSE, groups |-> GroupPages(pc)]

\* The pages the splitter is run on.
SampleTexts ==
    {MkText({"FORM W-2"}, "Mixed", "ACME BANK", <<>>),
     MkText({"1099-INT"}, "UPPER", "", <<>>),
     MkText({"INTEREST INCOME"}, "Mixed", "ACME BANK", <<>>),
     NoText}
PageLens == {30, 50}
PageKinds == {Page(c, t) : c \in PageLens, t \in SampleTexts}
PageSeqs(n) == UNION {[1..k -> PageKinds] : k \in 0..n}


(***************************************************************************)
(* FILE NAMES are sequences of characters, so that str.upper, str.lower,   *)
(* `in` and the comparison of the sort key are computed as Python computes *)
(* them (by code point).                                                   *)
(***************************************************************************)
UpperLetters == <<"A", "B", "C", "D", "E", "F", "G", "H", "I", "J", "K", "L", "M", "N", "O", "P", "Q", "R", "S", "T", "U", "V", "W", "X", "Y", "Z">>
LowerLetters == <<"a", "b", "c", "d", "e", "f", "g", "h", "i", "j", "k", "l", "m", "n", "o", "p", "q", "r", "s", "t", "u", "v", "w", "x", "y", "z">>
Digits == <<"0", "1", "2", "3", "4", "5", "6", "7", "8", "9">>

IndexIn(s, c) == CHOOSE i \in DOMAIN s : s[i] = c
IsIn(s, c) == \E i \in DOMAIN s : s[i] = c

\* ord(c) for the characters file names are written with.
Ord(c) ==
    IF IsIn(UpperLetters, c) THEN 64 + IndexIn(UpperLetters, c)
    ELSE IF IsIn(LowerLetters, c) THEN 96 + IndexIn(LowerLetters, c)
    ELSE IF IsIn(Digits, c) THEN 47 + IndexIn(Digits, c)
    ELSE CASE c = " " -> 32 [] c = "-" -> 45 [] c = "." -> 46 [] c = "_" -> 95

UpperChar(c) == IF IsIn(LowerLetters, c) THEN UpperLetters[IndexIn(LowerLetters, c)] ELSE c
LowerChar(c) == IF IsIn(UpperLetters, c) THEN LowerLetters[IndexIn(UpperLetters, c)] ELSE c

StrUpper(s) == [i \in DOMAIN s |-> UpperChar(s[i])]
StrLower(s) == [i \in DOMAIN s |-> LowerChar(s[i])]

\* needle in hay
StrIn(needle, hay) ==
    \E i \in 0..(Len(hay) - Len(needle)) : SubSeq(hay, i + 1, i + Len(needle)) = needle

RECURSIVE StrLess(_, _)
\* a < b, as Python compares two str
StrLess(a, b) ==
    IF b = <<>> THEN FALSE
    ELSE IF a = <<>> THEN TRUE
    ELSE IF Ord(Head(a)) # Ord(Head(b)) THEN Ord(Head(a)) < Ord(Head(b))
    ELSE StrLess(Tail(a), Tail(b))



(***************************************************************************)
(* WHOLE-FILE CLASSIFICATION: extract_pdf_text and classify_pdf.           *)
(***************************************************************************)
max_pages == 4
ReversedTextLen == 200

RECURSIVE FirstNonEmpty(_, _)
\* The first element of s that differs from `empty`, or `empty`.
FirstNonEmpty(s, empty) ==
    IF s = <<>> THEN empty
    ELSE IF Head(s) # empty THEN Head(s)
    ELSE FirstNonEmpty(Tail(s), empty)

\* The text of several pages joined: it holds every page's phrases, and a
\* pattern search finds in it the leftmost match, the first page's that has one.
JoinTexts(ts) ==
    [phrases |-> UNION {ts[i].phrases : i \in DOMAIN ts},
     cased |-> IF \A i \in DOMAIN ts : ts[i].cased = "UPPER" THEN "UPPER" ELSE "Mixed",
     name |-> FirstNonEmpty([i \in DOMAIN ts |-> ts[i].name], ""),
     div |-> [k \in 1..NDivPatterns |-> FirstNonEmpty([i \in DOMAIN ts |-> ts[i].div[k]], <<>>)],
     int |-> [k \in 1..NIntPatterns |-> FirstNonEmpty([i \in DOMAIN ts |-> ts[i].int[k]], <<>>)]]

\* The return value "" of extract_pdf_text.
EmptyText == [empty |-> TRUE, text |-> NoText]

\* Each page's text is followed by "\n"; a page's text is as long as its
\* stripped text.  No page of the model holds the reversed-text marker.
extract_pdf_text(d) ==
    IF ~PDFPLUMBER_AVAILABLE THEN EmptyText
    ELSE IF ~d.readable THEN EmptyText
    ELSE LET pages_to_read == Min(max_pages, Len(d.pages))
             first == SubSeq(d.pages, 1, pages_to_read)
             length == SumSeq([i \in DOMAIN first |-> first[i].chars + 1])
             later == IF length < ReversedTextLen
                      THEN SubSeq(d.pages, 3, Min(5, Len(d.pages)))
                      ELSE <<>>
             read == first \o later
         IN  IF read = <<>> THEN EmptyText
             ELSE [empty |-> FALSE, text |-> JoinTexts([i \in DOMAIN read |-> read[i].text])]

\* classify_pdf from "try content" on: the classifier's result when the text
\* is not empty and a form is recognised, else the given fallback.
ContentOr(d, fallback) ==
    LET t == extract_pdf_text(d)
        r == classify_by_content(t.text)
    IN  IF ~t.empty /\ r.form_type # None THEN r ELSE fallback

Fn(s, code) == StrIn(code, StrUpper(s))

classify_pdf(filename, d) ==
    IF Fn(filename, <<"W", "2">>) \/ Fn(filename, <<"W", "-", "2">>)
        THEN Result("W-2", "", 1)
    ELSE IF Fn(filename, <<"1", "0", "9", "9", "-", "I", "N", "T">>) \/ Fn(filename, <<"1", "0", "9", "9", "I", "N", "T">>)
        THEN Result("1099-INT", "", 2)
    ELSE IF Fn(filename, <<"1", "0", "9", "9", "-", "D", "I", "V">>) \/ Fn(filename, <<"1", "0", "9", "9", "D", "I", "V">>)
        THEN Result("1099-DIV", "", 3)
    ELSE IF Fn(filename, <<"1", "0", "9", "9", "-", "R">>) \/ Fn(filename, <<"1", "0", "9", "9", "R">>)
        THEN Result("1099-R", "", 4)
    ELSE IF \/ Fn(filename, <<"S", "S", "A">>)
            \/ Fn(filename, <<"S", "S", "I">>)
            \/ Fn(filename, <<"S", "O", "C", "I", "A", "L", " ", "S", "E", "C", "U", "R", "I", "T", "Y">>)
        THEN Result("SSA-1099", "", 5)
    ELSE IF Fn(filename, <<"1", "0", "9", "9", "-", "B">>) \/ Fn(filename, <<"1", "0", "9", "9", "B">>)
        THEN Result("1099-B", "", 6)
    ELSE IF Fn(filename, <<"1", "0", "9", "9", "-", "Q">>) \/ Fn(filename, <<"1", "0", "9", "9", "Q">>)
        THEN Result("1099-Q", "", 8)
    ELSE IF Fn(filename, <<"1", "0", "9", "8", "-", "T">>) \/ Fn(filename, <<"1", "0", "9", "8", "T">>)
        THEN Result("1098-T", "", 7)
    ELSE IF Fn(filename, <<"1", "0", "9", "8">>)
        THEN Result("1098", "", 7)
    ELSE IF Fn(filename, <<"K", "-", "1">>) \/ Fn(filename, <<"K", "1">>)
        THEN Result("K-1", "", 8)
    ELSE IF Fn(filename, <<"1", "0", "9", "9">>) /\ PDFPLUMBER_AVAILABLE
        THEN ContentOr(d, Result("1099-Other", "", 8))
    ELSE IF Fn(filename, <<"1", "0", "9", "9">>)
        THEN Result("1099-Other", "", 8)
    ELSE IF PDFPLUMBER_AVAILABLE
        THEN ContentOr(d, Result("Other", "", 9))
    ELSE Result("Other", "", 9)

(***************************************************************************)
(* PRIORITY SORTER: sort_pdfs_by_category.                                 *)
(***************************************************************************)
WholeFile == <<>>       \* page_indices None: the whole file

Entry(priority, category, payer, path, pages) ==
    [priority |-> priority, category |-> category, payer |-> payer,
     path |-> path, pages |-> pages]

\* The relabelling of 'Other' by the file's origin.
ByOrigin(e, origin) ==
    IF e.category = "Other" /\ origin = "image"
        THEN [e EXCEPT !.category = "Other (Photo)", !.priority = 10]
    ELSE IF e.category = "Other" /\ origin = "office"
        THEN [e EXCEPT !.category = "Other (Office)", !.priority = 11]
    ELSE e

\* The entries one file adds to `categorized`.
EntriesOf(d, origin) ==
    LET pg == classify_pdf_pages(d)
    IN  IF ~pg.none /\ Len(pg.groups) > 1
        THEN [i \in 1..Len(pg.groups) |->
                 ByOrigin(Entry(pg.groups[i].priority, pg.groups[i].category,
                                pg.groups[i].payer, d.name, pg.groups[i].pages), origin)]
        ELSE LET c == classify_pdf(d.name, d)
             IN  <<ByOrigin(Entry(c.priority, c.form_type, c.payer, d.name, WholeFile), origin)>>

RECURSIVE Categorize(_, _)
\* `categorized` before the sort.
Categorize(files, origins) ==
    IF files = <<>> THEN <<>>
    ELSE EntriesOf(Head(files), origins[Head(files).name]) \o Categorize(Tail(files), origins)

\* The sort key: (x[0], x[3].name.lower())
SortKey(e) == <<e.priority, StrLower(e.path)>>

KeyLess(k1, k2) == k1[1] < k2[1] \/ (k1[1] = k2[1] /\ StrLess(k1[2], k2[2]))

RECURSIVE InsertBeforeEqual(_, _)
\* InsertSorted that puts e before the elements whose key is equal.
InsertBeforeEqual(s, e) ==
    IF s = <<>> THEN <<e>>
    ELSE IF ~KeyLess(SortKey(Head(s)), SortKey(e)) THEN <<e>> \o s
    ELSE <<Head(s)>> \o InsertBeforeEqual(Tail(s), e)

RECURSIVE InsertSorted(_, _)
\* e put after every element whose key is not greater: list.sort is stable.
InsertSorted(s, e) ==
    IF s = <<>> THEN <<e>>
    ELSE IF KeyLess(SortKey(e), SortKey(Head(s))) THEN <<e>> \o s
    ELSE <<Head(s)>> \o InsertSorted(Tail(s), e)

RECURSIVE SortByKey(_)
SortByKey(s) ==
    IF s = <<>> THEN <<>>
    ELSE InsertSorted(SortByKey(SubSeq(s, 1, Len(s) - 1)), s[Len(s)])

sort_pdfs_by_category(files, origins) == SortByKey(Categorize(files, origins))



(***************************************************************************)
(* FIELD EXTRACTOR: extract_amount_with_quality.  The text and the pattern *)
(* list are abstracted to what re.search gives for each pattern in turn:   *)
(* <<>> (no match) or <<raw>>, the captured text, which is described by    *)
(* whether float() parses it, its value in cents, and the digits after its *)
(* decimal point (dot = FALSE: it has no decimal point).                   *)
(***************************************************************************)
HighValue == 1000000000        \* 10,000,000 dollars, in cents

Raw(ok, value, dot, decimals) ==
    [ok |-> ok, value |-> value, dot |-> dot, decimals |-> decimals]

NumVal(n) == [num |-> TRUE, n |-> n, s |-> ""]
TextVal(s) == [num |-> FALSE, n |-> 0, s |-> s]

\* Scored without the floor of 40 under the base confidence.
ScoredNoBaseFloor(attempt, raw) ==
    LET base == 100 - (attempt - 1) * 15
        neg == raw.value < 0
        high == raw.value > HighValue
        odd == raw.dot /\ raw.decimals # 2
        conf == base - (IF neg THEN 30 ELSE 0) - (IF high THEN 20 ELSE 0)
                     - (IF odd THEN 10 ELSE 0)
    IN  [confidence |-> Max(conf, 10),
         issues |-> (IF neg THEN <<"Negative value">> ELSE <<>>)
                    \o (IF high THEN <<"Unusually high value">> ELSE <<>>)
                    \o (IF odd THEN <<"Unusual decimal places">> ELSE <<>>)]

\* Scored that stops at the first sanity check that fails.
ScoredFirstIssueOnly(attempt, raw) ==
    LET base == Max(100 - (attempt - 1) * 15, 40)
        neg == raw.value < 0
        high == ~neg /\ raw.value > HighValue
        odd == ~neg /\ ~high /\ raw.dot /\ raw.decimals # 2
        conf == base - (IF neg THEN 30 ELSE 0) - (IF high THEN 20 ELSE 0)
                     - (IF odd THEN 10 ELSE 0)
    IN  [confidence |-> Max(conf, 10),
         issues |-> (IF neg THEN <<"Negative value">> ELSE <<>>)
                    \o (IF high THEN <<"Unusually high value">> ELSE <<>>)
                    \o (IF odd THEN <<"Unusual decimal places">> ELSE <<>>)]

\* The confidence and the issues of a parsed match found at `attempt`.
Scored(attempt, raw) ==
    LET base == Max(100 - (attempt - 1) * 15, 40)
        neg == raw.value < 0
        high == raw.value > HighValue
        odd == raw.dot /\ raw.decimals # 2
        conf == base - (IF neg THEN 30 ELSE 0) - (IF high THEN 20 ELSE 0)
                     - (IF odd THEN 10 ELSE 0)
    IN  [confidence |-> Max(conf, 10),
         issues |-> (IF neg THEN <<"Negative value">> ELSE <<>>)
                    \o (IF high THEN <<"Unusually high value">> ELSE <<>>)
                    \o (IF odd THEN <<"Unusual decimal places">> ELSE <<>>)]

RECURSIVE CascadeStopsAtMalformed(_, _, _, _, _)
\* Cascade that gives up at the first match that does not parse.
CascadeStopsAtMalformed(search, attempt, raw_match, field_name, default) ==
    IF attempt > Len(search)
    THEN [value |-> default,
          quality |-> [field |-> field_name, found |-> FALSE,
                       pattern_attempts |-> Len(search), confidence |-> 0,
                       raw_match |-> raw_match, issues |-> <<>>]]
    ELSE IF search[attempt] = <<>>
    THEN CascadeStopsAtMalformed(search, attempt + 1, raw_match, field_name, default)
    ELSE LET raw == search[attempt][1]
         IN  IF ~raw.ok
             THEN [value |-> default,
                   quality |-> [field |-> field_name, found |-> FALSE,
                                pattern_attempts |-> attempt, confidence |-> 0,
                                raw_match |-> <<raw>>, issues |-> <<>>]]
             ELSE [value |-> NumVal(raw.value),
                   quality |-> [field |-> field_name, found |-> TRUE,
                                pattern_attempts |-> attempt,
                                confidence |-> Scored(attempt, raw).confidence,
                                raw_match |-> <<raw>>,
                                issues |-> Scored(attempt, raw).issues]]

RECURSIVE Cascade(_, _, _, _, _)
\* The loop over enumerate(patterns, 1), from `attempt` on; raw_match is the
\* last captured text so far.
Cascade(search, attempt, raw_match, field_name, default) ==
    IF attempt > Len(search)
    THEN [value |-> default,
          quality |-> [field |-> field_name, found |-> FALSE,
                       pattern_attempts |-> Len(search), confidence |-> 0,
                       raw_match |-> raw_match, issues |-> <<>>]]
    ELSE IF search[attempt] = <<>>
    THEN Cascade(search, attempt + 1, raw_match, field_name, default)
    ELSE LET raw == search[attempt][1]
         IN  IF ~raw.ok
             THEN Cascade(search, attempt + 1, <<raw>>, field_name, default)
             ELSE [value |-> NumVal(raw.value),
                   quality |-> [field |-> field_name, found |-> TRUE,
                                pattern_attempts |-> attempt,
                                confidence |-> Scored(attempt, raw).confidence,
                                raw_match |-> <<raw>>,
                                issues |-> Scored(attempt, raw).issues]]

\* extract_amount_with_quality that answers 0 where nothing was found.
extract_amount_with_quality_zero(search, field_name, default) ==
    Cascade(search, 1, <<>>, field_name, NumVal(0))

extract_amount_with_quality(search, field_name, default) ==
    Cascade(search, 1, <<>>, field_name, default)

RECURSIVE extract_amount(_, _)
\* The plain extractor: the same cascade without the quality record.
extract_amount(patterns, default) ==
    IF patterns = <<>> THEN default
    ELSE IF Head(patterns) # <<>> /\ Head(patterns)[1].ok
         THEN NumVal(Head(patterns)[1].value)
         ELSE extract_amount(Tail(patterns), default)

(***************************************************************************)
(* QUALITY AGGREGATOR: class ExtractionResult and add_quality_metadata.    *)
(* data and quality are dicts: functions whose domain is the keys set so   *)
(* far.  A value is a number (cents) or a text.                            *)
(***************************************************************************)
Truthy(v) == IF v.num THEN v.n # 0 ELSE v.s # ""

Put(dict, key, value) == [k \in DOMAIN dict \cup {key} |-> IF k = key THEN value ELSE dict[k]]

EmptyDict == [k \in {} |-> 0]

RECURSIVE SumOver(_, _)
\* The sum of f[k] over the keys k of S.
SumOver(f, S) ==
    IF S = {} THEN 0
    ELSE LET k == CHOOSE x \in S : TRUE IN f[k] + SumOver(f, S \ {k})

\* ExtractionResult.__init__
NewResult(is_ocr) ==
    [is_ocr |-> is_ocr, data |-> EmptyDict, quality |-> EmptyDict,
     overall_confidence |-> 100, issues |-> 0,
     missing_required |-> <<>>, math_errors |-> <<>>]

\* add_field; quality_info is <<>> (None) or <<info>>.  `issues` counts the
\* strings of self.issues.
add_field(r, field_name, value, quality_info) ==
    IF quality_info = <<>>
    THEN [r EXCEPT !.data = Put(@, field_name, value)]
    ELSE [r EXCEPT !.data = Put(@, field_name, value),
                   !.quality = Put(@, field_name, quality_info[1]),
                   !.issues = @ + Len(quality_info[1].issues)]

add_text_field(r, field_name, value, confidence) ==
    [r EXCEPT !.data = Put(@, field_name, value),
              !.quality = Put(@, field_name,
                              [field |-> field_name, found |-> Truthy(value),
                               confidence |-> IF Truthy(value) THEN confidence ELSE 0,
                               issues |-> IF Truthy(value) THEN <<>> ELSE <<"Not found">>])]

RECURSIVE check_required(_, _)
\* required_fields is a list.
check_required(r, required_fields) ==
    IF required_fields = <<>> THEN r
    ELSE LET field == Head(required_fields)
             missing == field \notin DOMAIN r.data \/ ~Truthy(r.data[field])
             r1 == IF missing
                   THEN [r EXCEPT !.missing_required = Append(@, field),
                                  !.issues = @ + 1]
                   ELSE r
         IN  check_required(r1, Tail(required_fields))

Abs(x) == IF x < 0 THEN 0 - x ELSE x

\* expected, actual and tolerance in cents.
check_math(r, formula_name, expected, actual, tolerance) ==
    IF Abs(expected - actual) > tolerance
    THEN [r EXCEPT !.math_errors = Append(@, [check |-> formula_name,
                                              expected |-> expected, actual |-> actual,
                                              difference |-> actual - expected]),
                   !.issues = @ + 1]
    ELSE r

FoundFields(quality) == {k \in DOMAIN quality : quality[k].found}

\* calculate_overall_confidence without the cap of an OCR source.
calculate_overall_confidence_no_ocr_cap(r) ==
    IF DOMAIN r.quality = {} THEN 50
    ELSE LET found == FoundFields(r.quality)
             mean == IF found # {}
                     THEN SumOver([k \in found |-> r.quality[k].confidence], found)
                            \div Cardinality(found)
                     ELSE 0
             less == mean - Len(r.missing_required) * 10 - Len(r.math_errors) * 15
         IN  Max(less, 0)

\* calculate_overall_confidence without the final max(..., 0).
calculate_overall_confidence_unclamped(r) ==
    IF DOMAIN r.quality = {} THEN 50
    ELSE LET found == FoundFields(r.quality)
             mean == IF found # {}
                     THEN SumOver([k \in found |-> r.quality[k].confidence], found)
                            \div Cardinality(found)
                     ELSE 0
             capped == IF r.is_ocr THEN Min(mean, 75) ELSE mean
         IN  capped - Len(r.missing_required) * 10 - Len(r.math_errors) * 15

\* The value calculate_overall_confidence leaves in self.overall_confidence.
calculate_overall_confidence(r) ==
    IF DOMAIN r.quality = {} THEN 50
    ELSE LET found == FoundFields(r.quality)
             mean == IF found # {}
                     THEN SumOver([k \in found |-> r.quality[k].confidence], found)
                            \div Cardinality(found)
                     ELSE 0
             capped == IF r.is_ocr THEN Min(mean, 75) ELSE mean
             less == capped - Len(r.missing_required) * 10 - Len(r.math_errors) * 15
         IN  Max(less, 0)

\* The '_quality' record of to_dict (with the data beside it).
to_dict(r) ==
    [data |-> r.data,
     is_ocr |-> r.is_ocr,
     overall_confidence |-> calculate_overall_confidence(r),
     field_quality |-> [k \in DOMAIN r.quality |->
                           [found |-> r.quality[k].found,
                            confidence |-> r.quality[k].confidence,
                            issues |-> r.quality[k].issues]],
     missing_required |-> r.missing_required,
     math_errors |-> Len(r.math_errors)]

\* One field's entry of add_quality_metadata's field_quality.
FieldMeta(value, is_ocr) ==
    LET is_found == Truthy(value)
        c0 == IF is_found THEN 85 ELSE 0
        c1 == IF is_ocr /\ is_found THEN Min(c0, 70) ELSE c0
        neg == value.num /\ value.n < 0
        high == value.num /\ value.n > HighValue
        c2 == c1 - (IF neg THEN 30 ELSE 0) - (IF high THEN 20 ELSE 0)
    IN  [found |-> is_found, confidence |-> Max(c2, 0),
         issues |-> (IF neg THEN <<"Negative value">> ELSE <<>>)
                    \o (IF high THEN <<"Unusually high">> ELSE <<>>)]

RECURSIVE ListOf(_)
\* The keys of S as a list, each once (the loop over data.items() meets each
\* key once; the dicts of this model keep no insertion order).
ListOf(S) ==
    IF S = {} THEN <<>>
    ELSE LET k == CHOOSE x \in S : TRUE IN <<k>> \o ListOf(S \ {k})

\* add_quality_metadata's '_quality' record; required_fields is a set here:
\* a field is listed missing once, where the loop over data meets it.
add_quality_metadata(data, is_ocr, required_fields) ==
    LET field_quality == [k \in DOMAIN data |-> FieldMeta(data[k], is_ocr)]
        missing == {k \in DOMAIN data : k \in required_fields /\ ~field_quality[k].found}
        found == FoundFields(field_quality)
        mean == IF found # {}
                THEN SumOver([k \in found |-> field_quality[k].confidence], found)
                       \div Cardinality(found)
                ELSE 0
        capped == IF is_ocr THEN Min(mean, 75) ELSE mean
        less == capped - Cardinality(missing) * 10
    IN  [data |-> data,
         is_ocr |-> is_ocr,
         overall_confidence |-> Max(less, 0),
         field_quality |-> field_quality,
         missing_required |-> ListOf(missing),
         math_errors |-> 0]



(***************************************************************************)
(* W-2 CONSISTENCY REPAIR of parse_w2.  Amounts are in cents.  A rate test *)
(* lo < tax / wages < hi is the same test on integers, with lo and hi in   *)
(* thousandths; round(wages * rate, 2) rounds to the nearest cent.         *)
(***************************************************************************)
Boxes(b1, b2, b3, b4, b5, b6) ==
    [box1_wages |-> b1, box2_fed_withholding |-> b2,
     box3_ss_wages |-> b3, box4_ss_tax |-> b4,
     box5_medicare_wages |-> b5, box6_medicare_tax |-> b6]

RateIn(tax, wages, lo, hi) == lo * wages < 1000 * tax /\ 1000 * tax < hi * wages

MedicareBand(tax, wages) == RateIn(tax, wages, 12, 18)
SSBand(tax, wages) == RateIn(tax, wages, 55, 70)

\* round(wages * 0.062, 2) and round(wages * 0.0145, 2)
SSTaxOf(wages) == (wages * 62 + 500) \div 1000
MedicareTaxOf(wages) == (wages * 145 + 5000) \div 10000

\* SwapOrFix that swaps the pairs without looking at the rate of box 5/6.
SwapAlways(data) ==
    IF data.box3_ss_wages > 0 /\ data.box4_ss_tax > 0
       /\ MedicareBand(data.box4_ss_tax, data.box3_ss_wages)
       /\ data.box5_medicare_wages > 0 /\ data.box6_medicare_tax > 0
    THEN [data EXCEPT !.box3_ss_wages = data.box5_medicare_wages,
                      !.box4_ss_tax = data.box6_medicare_tax,
                      !.box5_medicare_wages = data.box3_ss_wages,
                      !.box6_medicare_tax = data.box4_ss_tax]
    ELSE IF data.box3_ss_wages > 0 /\ data.box4_ss_tax > 0
            /\ MedicareBand(data.box4_ss_tax, data.box3_ss_wages)
    THEN [data EXCEPT !.box5_medicare_wages = data.box3_ss_wages,
                      !.box6_medicare_tax = data.box4_ss_tax,
                      !.box4_ss_tax = SSTaxOf(data.box3_ss_wages)]
    ELSE data

\* "Validate and correct potential Box 3/4 vs 5/6 mix-ups using tax rate math"
SwapOrFix(data) ==
    IF data.box3_ss_wages > 0 /\ data.box4_ss_tax > 0
       /\ MedicareBand(data.box4_ss_tax, data.box3_ss_wages)
    THEN LET actual_medicare_wages == data.box3_ss_wages
             actual_medicare_tax == data.box4_ss_tax
             fixed == [data EXCEPT !.box5_medicare_wages = actual_medicare_wages,
                                   !.box6_medicare_tax = actual_medicare_tax,
                                   !.box4_ss_tax = SSTaxOf(actual_medicare_wages)]
         IN  IF data.box5_medicare_wages > 0 /\ data.box6_medicare_tax > 0
             THEN IF SSBand(data.box6_medicare_tax, data.box5_medicare_wages)
                  THEN [data EXCEPT !.box3_ss_wages = data.box5_medicare_wages,
                                    !.box4_ss_tax = data.box6_medicare_tax,
                                    !.box5_medicare_wages = actual_medicare_wages,
                                    !.box6_medicare_tax = actual_medicare_tax]
                  ELSE fixed
             ELSE fixed
    ELSE data

\* MedicareFromBox3 that copies the box 3/4 pair in both branches.
MedicareFromBox3Copied(data) ==
    IF /\ Abs(data.box5_medicare_wages - data.box1_wages) < 1
       /\ Abs(data.box6_medicare_tax - data.box2_fed_withholding) < 1
       /\ data.box3_ss_wages > 0 /\ data.box4_ss_tax > 0
    THEN IF MedicareBand(data.box4_ss_tax, data.box3_ss_wages)
         THEN [data EXCEPT !.box5_medicare_wages = data.box3_ss_wages,
                           !.box6_medicare_tax = data.box4_ss_tax,
                           !.box4_ss_tax = SSTaxOf(data.box3_ss_wages)]
         ELSE IF SSBand(data.box4_ss_tax, data.box3_ss_wages)
         THEN [data EXCEPT !.box5_medicare_wages = data.box3_ss_wages,
                           !.box6_medicare_tax = data.box4_ss_tax]
         ELSE data
    ELSE data

\* "Additional check: if Box 5/6 equals Box 1/2, the Medicare pattern failed"
MedicareFromBox3(data) ==
    IF /\ Abs(data.box5_medicare_wages - data.box1_wages) < 1
       /\ Abs(data.box6_medicare_tax - data.box2_fed_withholding) < 1
       /\ data.box3_ss_wages > 0 /\ data.box4_ss_tax > 0
    THEN IF MedicareBand(data.box4_ss_tax, data.box3_ss_wages)
         THEN [data EXCEPT !.box5_medicare_wages = data.box3_ss_wages,
                           !.box6_medicare_tax = data.box4_ss_tax,
                           !.box4_ss_tax = SSTaxOf(data.box3_ss_wages)]
         ELSE IF SSBand(data.box4_ss_tax, data.box3_ss_wages)
         THEN [data EXCEPT !.box5_medicare_wages = data.box3_ss_wages,
                           !.box6_medicare_tax = MedicareTaxOf(data.box3_ss_wages)]
         ELSE data
    ELSE data

\* The two corrections, in the order of parse_w2.
RepairW2Boxes(data) == MedicareFromBox3(SwapOrFix(data))

(***************************************************************************)
(* QUALITY GATES: should_skip_entry (populate_cch_checksheet) and          *)
(* filter_quality_entries (generate_cch_import).  An entry is the parsed   *)
(* dict: whether it has a '_quality' key, that record's overall confidence *)
(* and number of math errors, its names (strings of characters) and its    *)
(* box1_interest, in cents.                                                *)
(***************************************************************************)
MIN_CONFIDENCE_THRESHOLD == 60
MIN_CONFIDENCE_THRESHOLD_import == 60

garbage_patterns ==
    <<<<"z", "i", "p">>,
      <<"1", "0", "9", "9">>,
      <<"b", "o", "x", " ">>,
      <<"f", "e", "d", "e", "r", "a", "l">>,
      <<"w", "i", "t", "h", "h", "e", "l", "d">>,
      <<"i", "n", "c", "o", "m", "e", " ", "t", "a", "x">>,
      <<"p", "o", "s", "t", "a", "l", " ", "c", "o", "d", "e">>,
      <<"t", "e", "l", "e", "p", "h", "o", "n", "e">>,
      <<"p", "a", "y", "e", "r">>,
      <<"r", "e", "c", "i", "p", "i", "e", "n", "t">>,
      <<"f", "o", "r", "m", " ", "w", "-", "2">>,
      <<"f", "e", "d", ".">>,
      <<"m", "e", "d", "i", "c", "a", "r", "e">>,
      <<"s", "o", "c", "i", "a", "l", " ", "s", "e", "c", "u", "r", "i", "t", "y">>,
      <<"w", "a", "g", "e", "s">>,
      <<"w", "-", "2", " ", "b", "o", "x">>>>

YearAmounts == {202300, 202400, 202500, 202600}

Item(has_quality, overall, math_errors, employer_name, payer_name, interest) ==
    [has_quality |-> has_quality, overall_confidence |-> overall,
     math_errors |-> math_errors, employer_name |-> employer_name,
     payer_name |-> payer_name, box1_interest |-> interest]

\* quality.get('overall_confidence', 100) and len(quality.get('math_errors', []))
OverallOf(item) == IF item.has_quality THEN item.overall_confidence ELSE 100
MathErrorsOf(item) == IF item.has_quality THEN item.math_errors ELSE 0

\* item.get('employer_name', '') or item.get('payer_name', '') or ''
NameOf(item) == IF item.employer_name # <<>> THEN item.employer_name ELSE item.payer_name

IsGarbage(name) ==
    \E i \in DOMAIN garbage_patterns : StrIn(garbage_patterns[i], StrLower(name))

Skip(reason) == [skip |-> TRUE, reason |-> reason]

\* should_skip_entry that does not look at the math errors.
should_skip_entry_no_math(item) ==
    IF OverallOf(item) < MIN_CONFIDENCE_THRESHOLD THEN Skip("Low confidence")
    ELSE IF IsGarbage(NameOf(item)) THEN Skip("Invalid name")
    ELSE IF item.box1_interest \in YearAmounts THEN Skip("Interest amount looks like year")
    ELSE [skip |-> FALSE, reason |-> None]

should_skip_entry(item) ==
    IF OverallOf(item) < MIN_CONFIDENCE_THRESHOLD THEN Skip("Low confidence")
    ELSE IF MathErrorsOf(item) > 0 THEN Skip("Math validation failed")
    ELSE IF IsGarbage(NameOf(item)) THEN Skip("Invalid name")
    ELSE IF item.box1_interest \in YearAmounts THEN Skip("Interest amount looks like year")
    ELSE [skip |-> FALSE, reason |-> None]

\* One turn of filter_quality_entries' loop: is the item appended?
Passes(item) ==
    /\ ~(OverallOf(item) < MIN_CONFIDENCE_THRESHOLD_import)
    /\ ~(MathErrorsOf(item) > 0)
    /\ ~IsGarbage(NameOf(item))
    /\ item.box1_interest \notin YearAmounts

RECURSIVE filter_quality_entries(_)
filter_quality_entries(items) ==
    IF items = <<>> THEN <<>>
    ELSE (IF Passes(Head(items)) THEN <<Head(items)>> ELSE <<>>)
            \o filter_quality_entries(Tail(items))

(***************************************************************************)
(* SPECIFICATIONS.                                                         *)
(***************************************************************************)
IdlePdf == [name |-> <<>>, pages |-> <<>>, readable |-> TRUE]

classifyVars == <<text, cls>>
pagesVars == <<pdf, page_groups>>
sortVars == <<pdf_files, file_origins, categorized>>
qualityVars == <<er, calls, emitted>>
repairVars == <<w2>>
extractVars == <<args, got>>
gateVars == <<data_list, gated>>

IdleClassify == text = NoText /\ cls = <<>>
IdlePages == pdf = IdlePdf /\ page_groups = <<>>
IdleSort == pdf_files = <<>> /\ file_origins = EmptyDict /\ categorized = <<>>
IdleQuality == er = NewResult(FALSE) /\ calls = 0 /\ emitted = <<>>
IdleRepair == w2 = <<>>
IdleExtract == args = [patterns |-> <<>>, default |-> NumVal(0)] /\ got = <<>>
IdleGate == data_list = <<>> /\ gated = <<>>

------------------------------------------------------------------------------
\* The content classifier on one text.
InitClassify ==
    /\ unit = "classify"
    /\ text \in Texts
    /\ cls = <<>>
    /\ PDFPLUMBER_AVAILABLE = TRUE
    /\ IdlePages /\ IdleSort /\ IdleQuality /\ IdleRepair /\ IdleExtract /\ IdleGate

ClassifyByContent ==
    /\ unit = "classify"
    /\ cls = <<>>
    /\ cls' = <<classify_by_content(text)>>
    /\ UNCHANGED <<unit, text, PDFPLUMBER_AVAILABLE, pagesVars, sortVars, qualityVars, repairVars, extractVars, gateVars>>

NextClassify == ClassifyByContent

SpecClassify == InitClassify /\ [][NextClassify]_vars

------------------------------------------------------------------------------
\* The page splitter on one PDF.
ScanName == <<"s", "c", "a", "n", ".", "p", "d", "f">>

InitPages ==
    /\ unit = "pages"
    /\ PDFPLUMBER_AVAILABLE \in BOOLEAN
    /\ pdf \in {[name |-> ScanName, pages |-> ps, readable |-> rd] :
                    ps \in PageSeqs(MaxPages), rd \in BOOLEAN}
    /\ page_groups = <<>>
    /\ IdleClassify /\ IdleSort /\ IdleQuality /\ IdleRepair /\ IdleExtract /\ IdleGate

ClassifyPdfPages ==
    /\ unit = "pages"
    /\ page_groups = <<>>
    /\ page_groups' = <<classify_pdf_pages(pdf)>>
    /\ UNCHANGED <<unit, pdf, PDFPLUMBER_AVAILABLE, classifyVars, sortVars, qualityVars, repairVars, extractVars, gateVars>>

NextPages == ClassifyPdfPages

SpecPages == InitPages /\ [][NextPages]_vars

------------------------------------------------------------------------------
\* The priority sorter on a folder's files: distinct names, each file one of
\* a few contents, each with an origin.
FileNames ==
    {<<"a", ".", "p", "d", "f">>,
     <<"A", ".", "p", "d", "f">>,
     <<"b", ".", "P", "D", "F">>,
     <<"1", "0", "9", "9", "-", "D", "I", "V", ".", "p", "d", "f">>}

PW2 == Page(400, MkText({"FORM W-2"}, "Mixed", "ACME BANK", <<>>))
PInt == Page(400, MkText({"1099-INT"}, "UPPER", "", <<>>))
PIntNamed == Page(400, MkText({"INTEREST INCOME"}, "Mixed", "ACME BANK", <<>>))
PBlank == Page(30, NoText)
PPlain == Page(400, NoText)

Contents ==
    {<<PPlain>>, <<PW2>>, <<PInt, PW2, PW2>>, <<PBlank, PW2, PIntNamed>>,
     <<PInt, PIntNamed, PBlank>>, <<PW2, PInt, PW2>>}

Origins == {"original", "image", "office"}

RECURSIVE FileLists(_)
\* The lists of at most n files with distinct names.
FileLists(n) ==
    IF n = 0 THEN {<<>>}
    ELSE LET r == FileLists(n - 1)
         IN  r \cup {Append(l, [name |-> nm, pages |-> c, readable |-> TRUE]) :
                        l \in {x \in r : Len(x) = n - 1}, nm \in FileNames, c \in Contents}

DistinctNames(l) == \A i, j \in DOMAIN l : i # j => l[i].name # l[j].name

InitSort ==
    /\ unit = "sort"
    /\ PDFPLUMBER_AVAILABLE \in BOOLEAN
    /\ pdf_files \in {l \in FileLists(MaxFiles) : DistinctNames(l)}
    /\ file_origins \in [{pdf_files[i].name : i \in DOMAIN pdf_files} -> Origins]
    /\ categorized = <<>>
    /\ IdleClassify /\ IdlePages /\ IdleQuality /\ IdleRepair /\ IdleExtract /\ IdleGate

SortPdfsByCategory ==
    /\ unit = "sort"
    /\ categorized = <<>>
    /\ categorized' = <<sort_pdfs_by_category(pdf_files, file_origins)>>
    /\ UNCHANGED <<unit, pdf_files, file_origins, PDFPLUMBER_AVAILABLE,
                   classifyVars, pagesVars, qualityVars, repairVars, extractVars, gateVars>>

NextSort == SortPdfsByCategory

SpecSort == InitSort /\ [][NextSort]_vars


------------------------------------------------------------------------------
\* The quality engine on one document: an ExtractionResult filled by a
\* parser's calls and emitted by to_dict, or a plain data dict given to
\* add_quality_metadata.
AmountFields == {"box1_interest", "box4_fed_withholding"}
TextFields == {"payer_name"}

\* What re.search gives for the patterns of one field, pattern by pattern.
SampleSearches ==
    {<<<<Raw(TRUE, 50000, TRUE, 2)>>>>,
     <<<<>>, <<Raw(TRUE, 0, TRUE, 2)>>>>,
     <<<<>>, <<>>, <<>>, <<>>, <<Raw(TRUE, 0 - 100, TRUE, 1)>>>>,
     <<<<Raw(FALSE, 0, FALSE, 0)>>, <<Raw(TRUE, 2 * HighValue, FALSE, 0)>>>>,
     <<<<>>, <<>>>>}

\* The quality_info literals parse_w2 passes to add_field.
Box1Info(f, v) ==
    [field |-> f, found |-> v.n > 0,
     confidence |-> IF v.n > 0 THEN 85 ELSE 0, issues |-> <<>>]
Box2Info(f) == [field |-> f, found |-> TRUE, confidence |-> 80, issues |-> <<>>]

SampleValues == {NumVal(0), NumVal(50000)}
SampleNames == {TextVal(""), TextVal("ACME BANK")}
SampleConfidences == {0, 80, 100}
RequiredLists == {<<"payer_name", "box1_interest">>, <<"box4_fed_withholding">>}

InitQuality ==
    /\ unit = "quality"
    /\ \E ocr \in BOOLEAN : er = NewResult(ocr)
    /\ calls = 0
    /\ emitted = <<>>
    /\ PDFPLUMBER_AVAILABLE = TRUE
    /\ IdleClassify /\ IdlePages /\ IdleSort /\ IdleRepair /\ IdleExtract /\ IdleGate

Filling == unit = "quality" /\ emitted = <<>> /\ calls < MaxCalls
Rest == <<unit, PDFPLUMBER_AVAILABLE, classifyVars, pagesVars, sortVars, repairVars,
          extractVars, gateVars>>

\* value, q = extract_amount_with_quality(...); result.add_field(f, value, q)
AddExtracted ==
    /\ Filling
    /\ \E f \in AmountFields, search \in SampleSearches :
          LET x == extract_amount_with_quality(search, f, NumVal(0))
          IN  er' = add_field(er, f, x.value, <<x.quality>>)
    /\ calls' = calls + 1
    /\ UNCHANGED <<emitted, Rest>>

AddField ==
    /\ Filling
    /\ \E f \in AmountFields, v \in SampleValues :
       \E qi \in {<<>>, <<Box1Info(f, v)>>, <<Box2Info(f)>>} :
          er' = add_field(er, f, v, qi)
    /\ calls' = calls + 1
    /\ UNCHANGED <<emitted, Rest>>

AddTextField ==
    /\ Filling
    /\ \E f \in TextFields, v \in SampleNames, c \in SampleConfidences :
          er' = add_text_field(er, f, v, c)
    /\ calls' = calls + 1
    /\ UNCHANGED <<emitted, Rest>>

CheckRequired ==
    /\ Filling
    /\ \E required_fields \in RequiredLists :
          er' = check_required(er, required_fields)
    /\ calls' = calls + 1
    /\ UNCHANGED <<emitted, Rest>>

CheckMath ==
    /\ Filling
    /\ \E expected \in {6200}, actual \in {6200, 6250, 9000} :
          er' = check_math(er, "SS Tax", expected, actual, 100)
    /\ calls' = calls + 1
    /\ UNCHANGED <<emitted, Rest>>

ToDict ==
    /\ unit = "quality"
    /\ emitted = <<>>
    /\ er' = [er EXCEPT !.overall_confidence = calculate_overall_confidence(er)]
    /\ emitted' = <<to_dict(er)>>
    /\ UNCHANGED <<calls, Rest>>

AddQualityMetadata ==
    /\ unit = "quality"
    /\ emitted = <<>>
    /\ \E required_fields \in RequiredLists \cup {<<>>} :
          emitted' = <<add_quality_metadata(er.data, er.is_ocr,
                          {required_fields[i] : i \in DOMAIN required_fields})>>
    /\ UNCHANGED <<er, calls, Rest>>

NextQuality ==
    \/ AddExtracted
    \/ AddField
    \/ AddTextField
    \/ CheckRequired
    \/ CheckMath
    \/ ToDict
    \/ AddQualityMetadata

SpecQuality == InitQuality /\ [][NextQuality]_vars

------------------------------------------------------------------------------
\* The W-2 repair on one set of extracted boxes, applied again to its result.
WageAmounts == {0, 500000, 600000}
TaxAmounts == {0, 7000, 7250, 8700, 31000, 37200, 50000}

InitRepair ==
    /\ unit = "repair"
    /\ \E b1, b3, b5 \in WageAmounts, b2, b4, b6 \in TaxAmounts :
          w2 = <<Boxes(b1, b2, b3, b4, b5, b6)>>
    /\ PDFPLUMBER_AVAILABLE = TRUE
    /\ IdleClassify /\ IdlePages /\ IdleSort /\ IdleQuality /\ IdleExtract /\ IdleGate

RepairW2 ==
    /\ unit = "repair"
    /\ Len(w2) <= MaxRepairs
    /\ w2' = Append(w2, RepairW2Boxes(w2[Len(w2)]))
    /\ UNCHANGED <<unit, PDFPLUMBER_AVAILABLE, classifyVars, pagesVars, sortVars,
                   qualityVars, extractVars, gateVars>>

NextRepair == RepairW2

SpecRepair == InitRepair /\ [][NextRepair]_vars

------------------------------------------------------------------------------
\* The field extractor on one pattern list: what each pattern's re.search
\* gives (nothing, a text float() rejects, or an amount) and the default.
PatternOutcomes ==
    {<<>>, <<Raw(FALSE, 0, FALSE, 0)>>, <<Raw(TRUE, 12345, TRUE, 2)>>,
     <<Raw(TRUE, 50000, FALSE, 0)>>}

RECURSIVE SearchesOf(_)
SearchesOf(n) ==
    IF n = 0 THEN {<<>>}
    ELSE LET shorter == SearchesOf(n - 1)
         IN  shorter \cup {Append(s, o) : s \in {x \in shorter : Len(x) = n - 1},
                                          o \in PatternOutcomes}

Defaults == {NumVal(0), NumVal(777)}

InitExtract ==
    /\ unit = "extract"
    /\ \E ps \in SearchesOf(MaxPatterns), d \in Defaults :
          args = [patterns |-> ps, default |-> d]
    /\ got = <<>>
    /\ PDFPLUMBER_AVAILABLE = TRUE
    /\ IdleClassify /\ IdlePages /\ IdleSort /\ IdleQuality /\ IdleRepair /\ IdleGate

ExtractAmount ==
    /\ unit = "extract"
    /\ got = <<>>
    /\ got' = <<[with_quality |-> extract_amount_with_quality(args.patterns, "box1_interest",
                                                              args.default),
                 plain |-> extract_amount(args.patterns, args.default)]>>
    /\ UNCHANGED <<unit, args, PDFPLUMBER_AVAILABLE, classifyVars, pagesVars, sortVars,
                   qualityVars, repairVars, gateVars>>

NextExtract == ExtractAmount

SpecExtract == InitExtract /\ [][NextExtract]_vars

------------------------------------------------------------------------------
\* The two quality gates on one list of parsed entries.
GateNames ==
    {<<<<>>, <<>>>>,
     <<<<"A", "C", "M", "E">>, <<>>>>,
     <<<<>>, <<"F", "o", "r", "m", " ", "W", "-", "2", " ", "B", "o", "x">>>>}
GateOveralls == {0, 59, 60, 100}
GateInterests == {0, 202400}

GateItems ==
    {Item(TRUE, o, m, n[1], n[2], i) :
        o \in GateOveralls, m \in {0, 1}, n \in GateNames, i \in GateInterests}
    \cup {Item(FALSE, 0, 0, n[1], n[2], 0) : n \in GateNames}

RECURSIVE ItemLists(_)
ItemLists(n) ==
    IF n = 0 THEN {<<>>}
    ELSE LET shorter == ItemLists(n - 1)
         IN  shorter \cup {Append(l, it) : l \in {x \in shorter : Len(x) = n - 1},
                                           it \in GateItems}

InitGate ==
    /\ unit = "gate"
    /\ data_list \in ItemLists(MaxItems)
    /\ gated = <<>>
    /\ PDFPLUMBER_AVAILABLE = TRUE
    /\ IdleClassify /\ IdlePages /\ IdleSort /\ IdleQuality /\ IdleRepair /\ IdleExtract

\* populate_cch_checksheet asks should_skip_entry for each entry, and
\* generate_cch_import filters the list.
GateEntries ==
    /\ unit = "gate"
    /\ gated = <<>>
    /\ gated' = <<[should_skip |-> [i \in DOMAIN data_list |-> should_skip_entry(data_list[i])],
                   filtered |-> filter_quality_entries(data_list)]>>
    /\ UNCHANGED <<unit, data_list, PDFPLUMBER_AVAILABLE, classifyVars, pagesVars, sortVars,
                   qualityVars, repairVars, extractVars>>

NextGate == GateEntries

SpecGate == InitGate /\ [][NextGate]_vars

------------------------------------------------------------------------------
\* The field extractor on a pattern list whose last pattern is the first to
\* give an amount: the patterns before it do not match or match malformed
\* text, and the amount is negative, ordinary or very high, written with no
\* decimal point or with 0, 1 or 2 digits after it.
FailedOutcomes == {<<>>, <<Raw(FALSE, 0, FALSE, 0)>>}

RECURSIVE FailedPrefixes(_)
FailedPrefixes(n) ==
    IF n = 0 THEN {<<>>}
    ELSE {Append(s, o) : s \in FailedPrefixes(n - 1), o \in FailedOutcomes}

ScoredRaws ==
    {Raw(TRUE, v, d[1], d[2]) :
        v \in {0 - 100, 12345, 2 * HighValue},
        d \in {<<FALSE, 0>>, <<TRUE, 0>>, <<TRUE, 1>>, <<TRUE, 2>>}}

InitScore ==
    /\ unit = "extract"
    /\ \E k \in 1..MaxAttempts :
       \E failed \in FailedPrefixes(k - 1), raw \in ScoredRaws :
          args = [patterns |-> Append(failed, <<raw>>), default |-> NumVal(0)]
    /\ got = <<>>
    /\ PDFPLUMBER_AVAILABLE = TRUE
    /\ IdleClassify /\ IdlePages /\ IdleSort /\ IdleQuality /\ IdleRepair /\ IdleGate

SpecScore == InitScore /\ [][NextExtract]_vars

(***************************************************************************)
(* PROPERTIES of the page splitter (SpecPages).                            *)
(***************************************************************************)
Split == page_groups # <<>> /\ ~page_groups[1].none
Groups == page_groups[1].groups
NumPages == Len(pdf.pages)

RECURSIVE Flatten(_)
Flatten(gs) == IF gs = <<>> THEN <<>> ELSE Head(gs).pages \o Flatten(Tail(gs))

\* Page i (0-based) has fewer than 50 characters of text.
Sparse(i) == pdf.pages[i + 1].chars < SparseLimit
\* Page i (0-based) has enough text and the classifier recognises a form in it.
Classified(i) == ~Sparse(i) /\ classify_by_content(pdf.pages[i + 1].text).form_type # None
PageType(i) == IF Sparse(i) THEN None ELSE classify_by_content(pdf.pages[i + 1].text).form_type
\* The group that holds page i.
GroupOfPage(i) == CHOOSE g \in DOMAIN Groups : \E k \in DOMAIN Groups[g].pages : Groups[g].pages[k] = i
SetMax(S) == CHOOSE x \in S : \A y \in S : y <= x

\* C1: whenever classify_pdf_pages returns groups for a PDF of N pages, the
\* groups' page indices, concatenated, are the pages 0..N-1, each exactly once.
C1_PagePartition ==
    Split =>
        LET flat == Flatten(Groups)
        IN  /\ Len(flat) = NumPages
            /\ {flat[k] : k \in DOMAIN flat} = 0..(NumPages - 1)

\* A split PDF whose first page is unclassified and that has an unclassified
\* page further on.
C1_Witness ==
    /\ Split
    /\ Sparse(0)
    /\ \E i \in 2..(NumPages - 1) : PageType(i) = None

\* C5: when the pages are read, classify_pdf_pages returns None exactly when
\* the PDF has at most 2 pages or its pages show at most one distinct form
\* type; otherwise it returns at least two groups.
C5_NoneExactlyWhen ==
    (page_groups # <<>> /\ PDFPLUMBER_AVAILABLE /\ pdf.readable) =>
        LET types == {PageType(i) : i \in 0..(NumPages - 1)} \ {None}
        IN  /\ page_groups[1].none <=> (NumPages <= 2 \/ Cardinality(types) <= 1)
            /\ ~page_groups[1].none => Len(Groups) >= 2

\* A readable PDF of more than two pages, all of one form type, is not split.
C5_Witness ==
    /\ page_groups # <<>> /\ PDFPLUMBER_AVAILABLE /\ pdf.readable
    /\ NumPages > 2
    /\ \A i \in 0..(NumPages - 1) : PageType(i) = "W-2"
    /\ page_groups[1].none

\* C6, as stated: in a split PDF no page with fewer than 50 characters starts
\* a group, and it lies in the group of the nearest earlier classified page.
C6_SparseNeverStartsGroup ==
    Split =>
        \A i \in 0..(NumPages - 1) :
            Sparse(i) => \A g \in DOMAIN Groups : Groups[g].pages[1] # i

\* C6, amended: in a split PDF a page with fewer than 50 characters that
\* follows a classified page lies in the group of the nearest earlier
\* classified page and does not start a group; one that follows no classified
\* page lies in the first group, which is an "Other" group.
C6_SparseFolded ==
    Split =>
        \A i \in 0..(NumPages - 1) :
            Sparse(i) =>
                LET earlier == {j \in 0..(i - 1) : Classified(j)}
                IN  IF earlier # {}
                    THEN /\ GroupOfPage(i) = GroupOfPage(SetMax(earlier))
                         /\ Groups[GroupOfPage(i)].pages[1] # i
                    ELSE /\ GroupOfPage(i) = 1
                         /\ Groups[1].category = "Other"

\* A split PDF with a sparse page that carries a form's marker right after a
\* classified page of another form.
C6_Witness ==
    /\ Split
    /\ \E i \in 1..(NumPages - 1) :
          /\ Sparse(i) /\ Classified(i - 1)
          /\ classify_by_content(pdf.pages[i + 1].text).form_type
                \notin {None, PageType(i - 1)}


(***************************************************************************)
(* PROPERTIES of the priority sorter (SpecSort).                           *)
(***************************************************************************)
Sorted == categorized # <<>>
Out == categorized[1]
Produced == Categorize(pdf_files, file_origins)
PosIn(s, e) == CHOOSE i \in DOMAIN s : s[i] = e
SameKey(a, b) == a.priority = b.priority /\ StrLower(a.path) = StrLower(b.path)

\* C2: the list sort_pdfs_by_category returns holds the entries produced, in
\* the order of (priority ascending, lower-case file name ascending), and
\* entries with equal priority and equal lower-case name keep the order in
\* which they were produced.
C2_StableOrder ==
    Sorted =>
        /\ Len(Out) = Len(Produced)
        /\ \A k \in DOMAIN Produced : \E i \in DOMAIN Out : Out[i] = Produced[k]
        /\ \A i, j \in DOMAIN Out :
              i < j =>
                /\ Out[i].priority <= Out[j].priority
                /\ Out[i].priority = Out[j].priority
                      => ~StrLess(StrLower(Out[j].path), StrLower(Out[i].path))
                /\ SameKey(Out[i], Out[j])
                      => PosIn(Produced, Out[i]) < PosIn(Produced, Out[j])

\* The output holds two groups split from one file with the same priority,
\* and the input was not in key order.
C2_Witness ==
    /\ Sorted
    /\ \E i, j \in DOMAIN Out :
          i < j /\ Out[i].path = Out[j].path /\ Out[i].priority = Out[j].priority
    /\ Out # Produced

\* C3: two distinct file names never compare equal under the sort key.
C3_KeyTotalOrder ==
    Sorted =>
        \A i, j \in DOMAIN Out :
            Out[i].path # Out[j].path => SortKey(Out[i])[2] # SortKey(Out[j])[2]

\* C9: a file whose name holds the form code 1099-DIV is in the sorter's
\* output as 1099-DIV with priority 3, whatever its pages hold.
C9_FilenameWins ==
    Sorted =>
        \A i \in DOMAIN Out :
            StrIn(<<"1", "0", "9", "9", "-", "D", "I", "V">>, StrUpper(Out[i].path))
                => Out[i].category = "1099-DIV" /\ Out[i].priority = 3

(***************************************************************************)
(* PROPERTIES of the content classifier (SpecClassify).                    *)
(***************************************************************************)
Classed == cls # <<>>

\* The fixed priority table.
PriorityOf(form_type) ==
    CASE form_type = "W-2" -> 1
      [] form_type = "1099-INT" -> 2
      [] form_type = "1099-DIV" -> 3
      [] form_type = "1099-R" -> 4
      [] form_type = "SSA-1099" -> 5
      [] form_type = "1099-B" -> 6
      [] form_type \in {"1098", "1098-T"} -> 7
      [] form_type \in {"1099-Q", "1099-NEC", "1099-MISC", "1099-G", "K-1"} -> 8
      [] form_type \in {"1095", "Property Tax"} -> 9
      [] form_type = None -> 99
      [] OTHER -> 0

\* C4: the classifier's priority is the fixed table's priority of the form
\* type it returns (1..9), and 99 exactly when the form type is null, which
\* comes with an empty payer.
C4_PriorityTable ==
    Classed =>
        /\ cls[1].priority \in (1..9) \cup {99}
        /\ cls[1].priority = PriorityOf(cls[1].form_type)
        /\ cls[1].priority = 99 <=> cls[1].form_type = None
        /\ cls[1].form_type = None => cls[1].payer = ""

\* A text that holds a phrase and a name and is still not recognised.
C4_Witness ==
    /\ Classed
    /\ cls[1].form_type = None
    /\ text.phrases # {} /\ text.name # ""

\* C7: a text that holds "Social Security Wages", in any case, is classified
\* W-2 with priority 1 whatever other markers it holds.
C7_ExclusiveMarker ==
    (Classed /\ "SOCIAL SECURITY WAGES" \in text.phrases) =>
        cls[1].form_type = "W-2" /\ cls[1].priority = 1

\* "Social security wages" in mixed case beside a 1099-MISC marker.
C7_Witness ==
    /\ Classed
    /\ text.phrases = {"SOCIAL SECURITY WAGES", "1099-MISC"}
    /\ text.cased = "Mixed"
    /\ cls[1].form_type = "W-2"

\* C8: a text (not a W-2) with both dividend and interest markers whose
\* dividend total equals its interest total is classified 1099-INT, priority 2.
C8_TieIsInterest ==
    ( /\ Classed
      /\ text.phrases \cap DivMarkers # {}
      /\ text.phrases \cap IntMarkers # {}
      /\ ~is_w2(text)
      /\ FirstAmount(text.div) = FirstAmount(text.int) )
        => cls[1].form_type = "1099-INT" /\ cls[1].priority = 2

(***************************************************************************)
(* PROPERTIES of the quality engine (SpecQuality).                         *)
(***************************************************************************)
Percent == 0..100

\* C10: every confidence the engine gives lies in 0..100: each field's
\* confidence in the ExtractionResult and in the emitted record, and the
\* overall confidence of both, after any sequence of add_field,
\* add_text_field, check_required and check_math calls.
C10_ConfidenceBounds ==
    /\ \A k \in DOMAIN er.quality : er.quality[k].confidence \in Percent
    /\ er.overall_confidence \in Percent
    /\ emitted # <<>> =>
          /\ emitted[1].overall_confidence \in Percent
          /\ \A k \in DOMAIN emitted[1].field_quality :
                emitted[1].field_quality[k].confidence \in Percent

\* to_dict after a required field was found missing and a math check
\* failed, with no field found: the deductions go below zero.
C10_Witness ==
    /\ emitted # <<>>
    /\ DOMAIN er.quality # {}
    /\ FoundFields(er.quality) = {}
    /\ Len(er.missing_required) > 0
    /\ Len(er.math_errors) > 0
    /\ emitted[1].overall_confidence = 0

\* C11: a record of an OCR source is emitted with an overall confidence of
\* at most 75, by to_dict and by add_quality_metadata, whatever its fields'
\* confidences, missing required fields and math errors.
C11_OcrCap ==
    (emitted # <<>> /\ emitted[1].is_ocr) => emitted[1].overall_confidence <= 75

\* An OCR record whose found fields all have a confidence above 75, emitted
\* at exactly 75.
C11_Witness ==
    /\ emitted # <<>>
    /\ emitted[1].is_ocr
    /\ FoundFields(er.quality) # {}
    /\ \A k \in FoundFields(er.quality) : er.quality[k].confidence > 75
    /\ emitted[1].overall_confidence = 75

(***************************************************************************)
(* PROPERTIES of the W-2 repair (SpecRepair).  w2[1] holds the boxes as    *)
(* extracted, w2[2] the boxes after the repair, w2[3] after a second one.  *)
(***************************************************************************)
Repaired == Len(w2) >= 2
SSPair(data) == <<data.box3_ss_wages, data.box4_ss_tax>>
MedicarePair(data) == <<data.box5_medicare_wages, data.box6_medicare_tax>>

\* C12: the repair is idempotent: a second application leaves the six boxes
\* as the first application gave them.
C12_RepairIdempotent ==
    Len(w2) >= 3 => w2[3] = w2[2]

\* The first repair changed the boxes (by the swap), and it was applied twice.
C12_Witness ==
    /\ Len(w2) >= 3
    /\ w2[2] # w2[1]
    /\ SSPair(w2[2]) = MedicarePair(w2[1])

\* C13: the repair never changes a pair that is already within its own rate
\* band: box 3/4 with box4/box3 in the SS band, and box 5/6 with box6/box5
\* in the Medicare band, are left as extracted whatever the other boxes hold.
C13_ConsistentPairKept ==
    Repaired =>
        /\ (w2[1].box3_ss_wages > 0
            /\ SSBand(w2[1].box4_ss_tax, w2[1].box3_ss_wages))
              => SSPair(w2[2]) = SSPair(w2[1])
        /\ (w2[1].box5_medicare_wages > 0
            /\ MedicareBand(w2[1].box6_medicare_tax, w2[1].box5_medicare_wages))
              => MedicarePair(w2[2]) = MedicarePair(w2[1])

\* C14: when box 3/4 holds a rate in the Medicare band and box 5/6 a rate in
\* the SS band, the repair swaps the two pairs: box 3/4 ends as the former
\* box 5/6 and box 5/6 as the former box 3/4.
C14_FullSwap ==
    ( /\ Repaired
      /\ w2[1].box3_ss_wages > 0 /\ w2[1].box4_ss_tax > 0
      /\ MedicareBand(w2[1].box4_ss_tax, w2[1].box3_ss_wages)
      /\ w2[1].box5_medicare_wages > 0 /\ w2[1].box6_medicare_tax > 0
      /\ SSBand(w2[1].box6_medicare_tax, w2[1].box5_medicare_wages) )
        => /\ SSPair(w2[2]) = MedicarePair(w2[1])
           /\ MedicarePair(w2[2]) = SSPair(w2[1])

(***************************************************************************)
(* PROPERTIES of the field extractor (SpecExtract).                        *)
(***************************************************************************)
Extracted == got # <<>>
Parses(i) == args.patterns[i] # <<>> /\ args.patterns[i][1].ok
Malformed(i) == args.patterns[i] # <<>> /\ ~args.patterns[i][1].ok

\* C15: the extractor returns the value of the first pattern, in list order,
\* whose match parses as a number; a match that does not parse is passed
\* over like a pattern that does not match.
C15_FirstParsedWins ==
    Extracted =>
        \A i \in DOMAIN args.patterns :
            (Parses(i) /\ \A j \in 1..(i - 1) : ~Parses(j)) =>
                /\ got[1].with_quality.value = NumVal(args.patterns[i][1].value)
                /\ got[1].with_quality.quality.found
                /\ got[1].with_quality.quality.pattern_attempts = i
                /\ got[1].plain = NumVal(args.patterns[i][1].value)

\* A malformed match, then an amount, then another amount: the first amount
\* is returned.
C15_Witness ==
    /\ Extracted
    /\ Len(args.patterns) = 3
    /\ Malformed(1) /\ Parses(2) /\ Parses(3)
    /\ args.patterns[2] # args.patterns[3]
    /\ got[1].with_quality.value = NumVal(args.patterns[2][1].value)

\* C16: when no pattern gives a value (none matches or every match is
\* malformed) the extractor returns the caller's default with found = False,
\* confidence 0 and no issues.
C16_NoMatchDefault ==
    (Extracted /\ \A i \in DOMAIN args.patterns : ~Parses(i)) =>
        /\ got[1].with_quality.value = args.default
        /\ ~got[1].with_quality.quality.found
        /\ got[1].with_quality.quality.confidence = 0
        /\ got[1].with_quality.quality.issues = <<>>

\* A malformed match and a pattern that does not match, with a default
\* other than 0.
C16_Witness ==
    /\ Extracted
    /\ \E i, j \in DOMAIN args.patterns : Malformed(i) /\ args.patterns[j] = <<>>
    /\ \A i \in DOMAIN args.patterns : ~Parses(i)
    /\ args.default # NumVal(0)
    /\ got[1].with_quality.value = args.default

(***************************************************************************)
(* More PROPERTIES of the quality engine (SpecQuality).                    *)
(***************************************************************************)
FoundIn(fq) == {k \in DOMAIN fq : fq[k].found}
FloorMean(fq) ==
    IF FoundIn(fq) = {} THEN 0
    ELSE SumOver([k \in FoundIn(fq) |-> fq[k].confidence], FoundIn(fq))
            \div Cardinality(FoundIn(fq))

\* C17: where no OCR cap and no deduction applies (not an OCR source, no
\* missing required field, no math error), the emitted overall confidence is
\* the floor of the mean of the found fields' confidences, and 0 when no
\* field was found, a record with no quality-tracked field included.
C17_FloorMean ==
    ( /\ emitted # <<>>
      /\ ~emitted[1].is_ocr
      /\ emitted[1].missing_required = <<>>
      /\ emitted[1].math_errors = 0 )
        => emitted[1].overall_confidence = FloorMean(emitted[1].field_quality)

(***************************************************************************)
(* PROPERTIES of the quality gates (SpecGate).                             *)
(***************************************************************************)
Gated == gated # <<>>
InList(l, it) == \E k \in DOMAIN l : l[k] = it

\* C18: an entry whose overall confidence is below 60 or that has a math
\* error is skipped by should_skip_entry and left out by
\* filter_quality_entries; the two gates decide alike on every entry, and the
\* entries that pass are entries of the list, unchanged.
C18_LowQualityGated ==
    Gated =>
        /\ \A i \in DOMAIN data_list :
              /\ (data_list[i].has_quality
                  /\ (data_list[i].overall_confidence < 60
                      \/ data_list[i].math_errors > 0))
                    => /\ gated[1].should_skip[i].skip
                       /\ ~InList(gated[1].filtered, data_list[i])
              /\ gated[1].should_skip[i].skip <=> ~InList(gated[1].filtered, data_list[i])
        /\ \A k \in DOMAIN gated[1].filtered : InList(data_list, gated[1].filtered[k])

\* A list of an entry at 59 and an entry at 100 that has a math error: both
\* are skipped and the filtered list is empty.
C18_Witness ==
    /\ Gated
    /\ Len(data_list) = 2
    /\ data_list[1].has_quality /\ data_list[1].overall_confidence = 59
    /\ data_list[1].math_errors = 0
    /\ data_list[2].has_quality /\ data_list[2].overall_confidence = 100
    /\ data_list[2].math_errors > 0
    /\ gated[1].should_skip[1].skip /\ gated[1].should_skip[2].skip
    /\ gated[1].filtered = <<>>

(***************************************************************************)
(* More PROPERTIES of the page splitter (SpecPages).                       *)
(***************************************************************************)
\* C19: in a split PDF every group's pages are a contiguous ascending run;
\* every group after the first starts at a classified page whose type is not
\* the type of the group before it, so consecutive groups differ in type;
\* and two pages of one type with only unclassified pages between them lie
\* in one group.
C19_BoundariesAtTypeChange ==
    Split =>
        /\ \A g \in DOMAIN Groups :
              \A k \in 1..(Len(Groups[g].pages) - 1) :
                  Groups[g].pages[k + 1] = Groups[g].pages[k] + 1
        /\ \A g \in 2..Len(Groups) :
              /\ PageType(Groups[g].pages[1]) # None
              /\ PageType(Groups[g].pages[1]) = Groups[g].category
              /\ Groups[g].category # Groups[g - 1].category
        /\ \A i, j \in 0..(NumPages - 1) :
              ( /\ i < j
                /\ PageType(i) # None /\ PageType(i) = PageType(j)
                /\ \A k \in (i + 1)..(j - 1) : PageType(k) = None )
                    => GroupOfPage(i) = GroupOfPage(j)

\* A split PDF with two pages of one type around an unclassified page, in
\* one group, and a page of another type after them.
C19_Witness ==
    /\ Split
    /\ \E i \in 0..(NumPages - 3) :
          /\ PageType(i) # None /\ PageType(i + 1) = None
          /\ PageType(i + 2) = PageType(i)
          /\ GroupOfPage(i) = GroupOfPage(i + 2)
          /\ i + 3 <= NumPages - 1
          /\ GroupOfPage(i + 3) # GroupOfPage(i)

(***************************************************************************)
(* More PROPERTIES of the content classifier (SpecClassify).               *)
(***************************************************************************)
HoldsMarker(t, marker) == \E p \in t.phrases : marker \in MarkersOf(p)

\* C20: a text without "Social Security Wages" that holds a marker of
\* another form (5498, 1095, 1099-SA, 1099-MISC, 1099-NEC or 1099-G) is never
\* classified W-2, whatever W-2 labels or compact W-2 layout it also holds.
C20_NegativeOverride ==
    ( /\ Classed
      /\ ~HoldsMarker(text, "SOCIAL SECURITY WAGES")
      /\ \E m \in {"5498", "1095", "1099-SA", "1099-MISC", "1099-NEC", "1099-G"} :
            HoldsMarker(text, m) )
        => cls[1].form_type # "W-2"

BothSections(t) ==
    /\ \E m \in DivMarkers : HoldsMarker(t, m)
    /\ \E m \in IntMarkers : HoldsMarker(t, m)

\* C21: a text that is not a W-2 and holds both dividend and interest markers
\* with different totals is classified as the form of the larger total:
\* 1099-DIV, priority 3, or 1099-INT, priority 2.
C21_LargerTotalWins ==
    (Classed /\ BothSections(text) /\ ~is_w2(text)) =>
        /\ FirstAmount(text.div) > FirstAmount(text.int)
              => cls[1].form_type = "1099-DIV" /\ cls[1].priority = 3
        /\ FirstAmount(text.int) > FirstAmount(text.div)
              => cls[1].form_type = "1099-INT" /\ cls[1].priority = 2

\* Both totals nonzero, the dividend total the larger.
C21_Witness ==
    /\ Classed /\ BothSections(text) /\ ~is_w2(text)
    /\ FirstAmount(text.int) > 0
    /\ FirstAmount(text.div) > FirstAmount(text.int)
    /\ cls[1].form_type = "1099-DIV"

(***************************************************************************)
(* PROPERTIES of the extractor's scoring (SpecScore): the last pattern of  *)
(* args.patterns is the one that gives the amount.                         *)
(***************************************************************************)
FoundAt == Len(args.patterns)
FoundRaw == args.patterns[FoundAt][1]
GotQuality == got[1].with_quality.quality
BaseConfidence(k) == IF 100 - 15 * (k - 1) > 40 THEN 100 - 15 * (k - 1) ELSE 40

\* C22: a value found by the k-th pattern tried, every earlier pattern
\* counted whether it did not match or matched malformed text, has the base
\* confidence max(100 - 15 * (k - 1), 40): that is its confidence when no
\* sanity check fails, and with penalties its confidence is never below 10.
C22_BaseConfidence ==
    Extracted =>
        /\ GotQuality.found
        /\ GotQuality.pattern_attempts = FoundAt
        /\ GotQuality.issues = <<>> => GotQuality.confidence = BaseConfidence(FoundAt)
        /\ GotQuality.confidence <= BaseConfidence(FoundAt)
        /\ GotQuality.confidence >= 10

\* A clean amount found by the seventh pattern, after a malformed match:
\* 100 - 90 is raised to the floor of 40.
C22_Witness ==
    /\ Extracted
    /\ FoundAt = 7
    /\ \E i \in 1..6 : Malformed(i)
    /\ GotQuality.issues = <<>>
    /\ GotQuality.confidence = 40

Penalised(neg, high, odd) ==
    LET c == BaseConfidence(FoundAt) - (IF neg THEN 30 ELSE 0) - (IF high THEN 20 ELSE 0)
                                     - (IF odd THEN 10 ELSE 0)
    IN  /\ GotQuality.confidence = (IF c > 10 THEN c ELSE 10)
        /\ Len(GotQuality.issues) = (IF neg THEN 1 ELSE 0) + (IF high THEN 1 ELSE 0)
                                    + (IF odd THEN 1 ELSE 0)

\* C23, as stated: each sanity check that fails lowers the confidence and adds
\* one issue: -30 for a negative value, -20 for a value over 10,000,000, -10
\* for a text that does not have exactly two digits after a decimal point,
\* a text with no decimal part included.
C23_EachCheckPenalised ==
    Extracted =>
        Penalised(FoundRaw.value < 0, FoundRaw.value > HighValue,
                  ~(FoundRaw.dot /\ FoundRaw.decimals = 2))

\* C23, amended: the -10 applies to a text that has a decimal point and not
\* exactly two digits after it; a text with no decimal point is not penalised.
C23_ChecksWithDecimalPoint ==
    Extracted =>
        Penalised(FoundRaw.value < 0, FoundRaw.value > HighValue,
                  FoundRaw.dot /\ FoundRaw.decimals # 2)

\* A negative amount with one digit after the point, found by the first
\* pattern: 100 - 30 - 10 and two issues.
C23_Witness ==
    /\ Extracted
    /\ FoundAt = 1
    /\ FoundRaw.value < 0 /\ FoundRaw.dot /\ FoundRaw.decimals = 1
    /\ GotQuality.confidence = 60
    /\ Len(GotQuality.issues) = 2

(***************************************************************************)
(* More PROPERTIES of the W-2 repair (SpecRepair).                         *)
(***************************************************************************)
LooksLikeMedicare(data) ==
    /\ data.box3_ss_wages > 0 /\ data.box4_ss_tax > 0
    /\ MedicareBand(data.box4_ss_tax, data.box3_ss_wages)
PlausibleSS(data) ==
    /\ data.box5_medicare_wages > 0 /\ data.box6_medicare_tax > 0
    /\ SSBand(data.box6_medicare_tax, data.box5_medicare_wages)
Box56IsBox12(data) ==
    /\ data.box5_medicare_wages = data.box1_wages
    /\ data.box6_medicare_tax = data.box2_fed_withholding

C25_BackfillWhenever ==
    (Repaired /\ Box56IsBox12(w2[1])) =>
        /\ w2[2].box5_medicare_wages = w2[2].box3_ss_wages
        /\ w2[2].box6_medicare_tax = (w2[2].box3_ss_wages * 145 + 5000) \div 10000

\* C25, amended: when box 5/6 equals box 1/2 and box 3/4 has a rate in the SS
\* band, the repair sets box5 to box3 and box6 to box3 * 0.0145 rounded to
\* cents, and leaves box 3/4 alone.
C25_BackfillFromPlausibleSS ==
    ( /\ Repaired /\ Box56IsBox12(w2[1])
      /\ w2[1].box3_ss_wages > 0
      /\ SSBand(w2[1].box4_ss_tax, w2[1].box3_ss_wages) ) =>
        /\ SSPair(w2[2]) = SSPair(w2[1])
        /\ w2[2].box5_medicare_wages = w2[1].box3_ss_wages
        /\ w2[2].box6_medicare_tax = (w2[1].box3_ss_wages * 145 + 5000) \div 10000

\* Box 5/6 repeats box 1/2 with other wages than box3, box 3/4 is at 6.2%,
\* and the repair rewrote the Medicare pair.
C25_Witness ==
    /\ Repaired /\ Box56IsBox12(w2[1])
    /\ w2[1].box3_ss_wages > 0
    /\ SSBand(w2[1].box4_ss_tax, w2[1].box3_ss_wages)
    /\ w2[1].box5_medicare_wages # w2[1].box3_ss_wages
    /\ w2[1].box5_medicare_wages > 0
    /\ MedicarePair(w2[2]) # MedicarePair(w2[1])
    /\ w2[2].box5_medicare_wages = w2[1].box3_ss_wages

(***************************************************************************)
(* PROPERTIES of the emitted quality record (SpecQuality).                 *)
(***************************************************************************)
Emitted == emitted # <<>>

\* C26: in a record emitted for an OCR source, by to_dict or by
\* add_quality_metadata, every field reported found has a confidence of at
\* most 70.
C26_OcrFieldCap ==
    (Emitted /\ emitted[1].is_ocr) =>
        \A k \in FoundIn(emitted[1].field_quality) :
            emitted[1].field_quality[k].confidence <= 70

\* The fields of a record flagged by the amount-magnitude sanity check.
OverMagnitude(fq) ==
    {k \in DOMAIN fq :
        \E i \in DOMAIN fq[k].issues :
            fq[k].issues[i] \in {"Unusually high value", "Unusually high"}}

\* C27: the emitted overall confidence is max(0, B - 10*m - 15*e), with B
\* the mean of the found fields' confidences, capped at 75 for an OCR source
\* before anything is subtracted, m the number of missing required fields
\* and e the number of math inconsistencies, a field that failed the
\* amount-magnitude sanity check counting as one.
C27_OverallFormula ==
    Emitted =>
        LET B == IF emitted[1].is_ocr
                 THEN Min(FloorMean(emitted[1].field_quality), 75)
                 ELSE FloorMean(emitted[1].field_quality)
            m == Len(emitted[1].missing_required)
            e == emitted[1].math_errors
                   + Cardinality(OverMagnitude(emitted[1].field_quality))
        IN  emitted[1].overall_confidence = Max(0, B - 10 * m - 15 * e)

\* C29: in a record emitted by to_dict after add_field / add_text_field
\* calls followed by check_required, no field listed in missing_required is
\* reported found in field_quality.
C29_MissingNeverFound ==
    (Emitted /\ emitted[1] = to_dict(er)) =>
        \A i \in DOMAIN emitted[1].missing_required :
            emitted[1].missing_required[i] \notin FoundIn(emitted[1].field_quality)

(***************************************************************************)
(* More PROPERTIES of the priority sorter (SpecSort).                      *)
(***************************************************************************)
\* C28: in the list sort_pdfs_by_category returns, two entries with the same
\* category carry the same priority, and the entries of one category are a
\* contiguous block.
C28_CategoryFixesPriority ==
    Sorted =>
        /\ \A i, j \in DOMAIN Out :
              Out[i].category = Out[j].category => Out[i].priority = Out[j].priority
        /\ \A i, j, k \in DOMAIN Out :
              (i < k /\ k < j /\ Out[i].category = Out[j].category)
                  => Out[k].category = Out[i].category

(***************************************************************************)
(* More PROPERTIES of the content classifier (SpecClassify).               *)
(***************************************************************************)
AnyMarker(t, markers) == \E m \in markers : HoldsMarker(t, m)

\* The W-2 rule with its negative override: the exclusive marker, or a W-2
\* keyword or the compact layout with no marker of another form.
W2RuleHolds(t) ==
    \/ HoldsMarker(t, "SOCIAL SECURITY WAGES")
    \/ /\ ~AnyMarker(t, {"5498", "1099-SA", "1095-C", "1095-B",
                         "1099-MISC", "1099-NEC", "1099-G"})
       /\ \/ AnyMarker(t, {"WAGE AND TAX STATEMENT", "FORM W-2", "WAGES, TIPS", "W-2 WAGE"})
          \/ CompactW2Layout \in t.phrases

\* The priorities of the rules whose markers the text satisfies.
SatisfiedPriorities(t) ==
    {pr \in 1..9 :
        \/ pr = 1 /\ W2RuleHolds(t)
        \/ pr = 2 /\ AnyMarker(t, {"1099-INT", "INTEREST INCOME"})
        \/ pr = 3 /\ AnyMarker(t, {"1099-DIV", "DIVIDENDS AND DISTRIBUTIONS"})
        \/ pr = 4 /\ AnyMarker(t, {"1099-R", "DISTRIBUTIONS FROM PENSIONS"})
        \/ pr = 5 /\ AnyMarker(t, {"SSA-1099", "SOCIAL SECURITY BENEFIT"})
        \/ pr = 6 /\ AnyMarker(t, {"1099-B", "PROCEEDS FROM BROKER"})
        \/ pr = 7 /\ \/ AnyMarker(t, {"1098-T", "TUITION STATEMENT"})
                     \/ HoldsMarker(t, "1098") /\ HoldsMarker(t, "MORTGAGE")
        \/ pr = 8 /\ AnyMarker(t, {"1099-Q", "QUALIFIED EDUCATION",
                                   "1099-NEC", "NONEMPLOYEE COMPENSATION",
                                   "1099-MISC", "1099-G", "GOVERNMENT PAYMENTS",
                                   "UNEMPLOYMENT COMPENSATION", "K-1", "SCHEDULE K-1"})
        \/ pr = 9 /\ AnyMarker(t, {"1095", "HEALTH COVERAGE",
                                   "PROPERTY TAX", "AD VALOREM", "TAX COLLECTOR"})}

SmallestOf(S) == CHOOSE x \in S : \A y \in S : x <= y

\* The consolidated dividend/interest comparison decides the text.
ConsolidatedCase(t) == BothSections(t) /\ ~W2RuleHolds(t)

\* C30: apart from the W-2 negative override (built into the W-2 rule) and
\* the consolidated dividend/interest comparison, the classifier's result
\* carries the smallest priority number among the rules the text's markers
\* satisfy.
C30_SmallestPriorityWins ==
    (Classed /\ SatisfiedPriorities(text) # {} /\ ~ConsolidatedCase(text)) =>
        cls[1].priority = SmallestOf(SatisfiedPriorities(text))

\* A text satisfying two rules of different priorities, neither of them the
\* W-2 rule, classified as the form with the smaller number.
C30_Witness ==
    /\ Classed
    /\ ~ConsolidatedCase(text)
    /\ Cardinality(SatisfiedPriorities(text)) = 2
    /\ 1 \notin SatisfiedPriorities(text)
    /\ 8 \in SatisfiedPriorities(text)
    /\ cls[1].priority = SmallestOf(SatisfiedPriorities(text))
    /\ cls[1].priority < 8

====
